---- MODULE Spec2Model ----
(***************************************************************************)
(* dumb_ptr: a reference-counted shared pointer for C (src/dumb_ptr.h) and *)
(* the scope-exit discipline of its example (src/example.c).               *)
(*                                                                         *)
(* Handles are shared_ptr_t stack variables.  Heap blocks are allocation   *)
(* identities: every malloc that succeeds returns a block never returned   *)
(* before, so that "freed twice" and "fresh" are facts about allocations   *)
(* and not about numeric addresses.                                        *)
(***************************************************************************)
EXTENDS Integers, Sequences, FiniteSets

\* Number of shared_ptr_t stack variables of the run.
MaxHandles == 3

\* Width of the counter in bits (uint32_t in the source, scaled down).
CounterBits == 6

CounterMod == 2 ^ CounterBits

Handle == 1 .. MaxHandles

\* Every shared_ptr_init uses at most two allocations: payload and counter.
Block == 1 .. (2 * MaxHandles)

\* The null pointer.
NULL == 0

\* Indeterminate contents: a pointer field or a memory word never written.
Uninit == -1

\* The null function pointer, the destructors of the program, a function
\* pointer that is not callable, and a ptr_destructor field never written.
NullFn == "NULL"
Destructor == {"test_destructor", "other_destructor"}
WildFn == "wild"
UninitFn == "indeterminate"

\* What reading an indeterminate ptr_destructor can yield.
Garbage == {NullFn, WildFn} \cup Destructor

VARIABLES
    sp,          \* sp[h]: the fields refcount, ptr, ptr_destructor of handle h
    status,      \* status[h]: "uninit", "live", "failed" (init returned false), "released"
    origin,      \* origin[h]: "none", "init" or "copy": the constructor that made h
    heap,        \* heap[b]: "unalloc", "live" or "freed"
    mem,         \* mem[b]: the word stored in block b
    nfree,       \* nfree[b]: how many times free(b) was called
    destructed,  \* destructed[b]: the functions invoked with argument b, in order
    last,        \* the most recent call: its arguments, result and events
    crashed,     \* the process was terminated by a fault
    tpc,         \* tpc[h]: where the thread running a call on handle h stands
    reg,         \* reg[h]: the counter value that thread has loaded
    raced,       \* two calls on handles of one group have overlapped
    grp          \* a group seen as its counter and its number of live handles

\* The variables of calls split into steps, and what leaves them alone.
threads == <<tpc, reg, raced>>

vars == <<sp, status, origin, heap, mem, nfree, destructed, last, crashed,
          tpc, reg, raced, grp>>

\* typedef struct shared_ptr { refcount; ptr; ptr_destructor }
shared_ptr_t(refcount, ptr, ptr_destructor) ==
    [refcount |-> refcount, ptr |-> ptr, ptr_destructor |-> ptr_destructor]

\* Events of a call: free(b), and fn(b) for a destructor invocation.
FreeEv(b) == [e |-> "free", fn |-> NullFn, b |-> b]
CallEv(fn, b) == [e |-> "call", fn |-> fn, b |-> b]

NoCall ==
    [op |-> "none", this |-> 0, that |-> 0, ptr |-> NULL, fn |-> NullFn,
     cnt |-> 0, ret |-> TRUE, ev |-> <<>>]

Call(op, this, that, ptr, fn, cnt, ret, ev) ==
    [op |-> op, this |-> this, that |-> that, ptr |-> ptr, fn |-> fn,
     cnt |-> cnt, ret |-> ret, ev |-> ev]

\* The block a successful malloc returns: one never handed out before.
Unused == {b \in Block : heap[b] = "unalloc"}
FirstUnused(S) == CHOOSE b \in S : \A c \in S : b <= c

Freed(ev) == {ev[i].b : i \in {j \in DOMAIN ev : ev[j].e = "free"}}

RECURSIVE CallsOn(_, _)
CallsOn(ev, b) ==
    IF ev = <<>> THEN <<>>
    ELSE IF ev[1].e = "call" /\ ev[1].b = b
         THEN <<ev[1].fn>> \o CallsOn(Tail(ev), b)
         ELSE CallsOn(Tail(ev), b)

RECURSIVE FreesOf(_, _)
FreesOf(ev, b) ==
    IF ev = <<>> THEN 0
    ELSE (IF ev[1].e = "free" /\ ev[1].b = b THEN 1 ELSE 0) + FreesOf(Tail(ev), b)

\* The effect of a call's events on the allocator and on the destructor log.
Perform(ev) ==
    /\ heap' = [b \in Block |-> IF b \in Freed(ev) THEN "freed" ELSE heap[b]]
    /\ nfree' = [b \in Block |-> nfree[b] + FreesOf(ev, b)]
    /\ destructed' = [b \in Block |-> destructed[b] \o CallsOn(ev, b)]

\* No group constructed yet.
NoGroup == [counter |-> 0, live |-> 0, freed |-> FALSE, op |-> "none"]

Init ==
    /\ sp = [h \in Handle |-> shared_ptr_t(Uninit, Uninit, UninitFn)]
    /\ status = [h \in Handle |-> "uninit"]
    /\ origin = [h \in Handle |-> "none"]
    /\ heap = [b \in Block |-> "unalloc"]
    /\ mem = [b \in Block |-> Uninit]
    /\ nfree = [b \in Block |-> 0]
    /\ destructed = [b \in Block |-> <<>>]
    /\ last = NoCall
    /\ crashed = FALSE
    /\ tpc = [h \in Handle |-> "idle"]
    /\ reg = [h \in Handle |-> 0]
    /\ raced = FALSE
    /\ grp = NoGroup

\* A constructor that forgets ptr_destructor, as shared_ptr_copy does.
InitFields_NoDestructor(old, ptr, fn, c) == shared_ptr_t(c, ptr, old.ptr_destructor)

\* A constructor that writes the handle only once the counter is allocated.
InitFields_AllOrNothing(old, ptr, fn, c) ==
    IF c = NULL THEN old ELSE shared_ptr_t(c, ptr, fn)

\* shared_ptr_init, lines 36-39: the three fields after the call; c is what
\* malloc returned (NULL on failure).
InitFields(old, ptr, fn, c) == shared_ptr_t(c, ptr, fn)

\* shared_ptr_init, line 42: the value stored in the new counter.
InitCounterValue == 1

\* A constructor that does not test the result of malloc.
InitReturn_Unchecked(c) == TRUE

\* shared_ptr_init, lines 40-44: the result.
InitReturn(c) == c # NULL

\* A copy that shares the counter and forgets the payload address.
CopyFields_NoPtr(this, that) ==
    shared_ptr_t(that.refcount, this.ptr, this.ptr_destructor)

\* shared_ptr_copy, lines 53-54: ptr and refcount are assigned; ptr_destructor
\* is not, so it keeps whatever the stack variable held.
CopyFields(this, that) ==
    shared_ptr_t(that.refcount, that.ptr, this.ptr_destructor)

\* A copy that takes the group away from its source (a move).
CopySource_Moved(that) == shared_ptr_t(NULL, NULL, that.ptr_destructor)

\* shared_ptr_copy, lines 53-55: the source handle is read, never written.
CopySource(that) == that

\* A copy that stops counting at the largest value instead of wrapping.
Increment_Saturating(n) == IF n = CounterMod - 1 THEN n ELSE n + 1

\* A copy that does not count the new handle.
Increment_None(n) == n

\* shared_ptr_copy, line 55: *this->refcount += 1 on a uint32_t.
Increment(n) == (n + 1) % CounterMod

\* A release that does not count the handle.
Decrement_None(n) == n

\* A release that counts the handle twice.
Decrement_Twice(n) == (n + CounterMod - 2) % CounterMod

\* shared_ptr_cleanup, line 65: *this->refcount -= 1 on a uint32_t.
Decrement(n) == (n + CounterMod - 1) % CounterMod

\* A release that deallocates one release too early.
ReachedZero_OffByOne(n) == n <= 1

\* A release whose test never succeeds.
ReachedZero_Never(n) == n < 0

\* shared_ptr_cleanup, line 66: the test that guards the deallocation.
ReachedZero(n) == n = 0

\* A release in the order destructor, payload, counter.
ReleaseEvents_CounterLast(c, fn, p) ==
    (IF fn = NullFn THEN <<>> ELSE <<CallEv(fn, p)>>)
    \o (IF fn = WildFn THEN <<>> ELSE <<FreeEv(p), FreeEv(c)>>)

\* A release that frees both blocks and never calls the destructor.
ReleaseEvents_NoCall(c, fn, p) == <<FreeEv(c), FreeEv(p)>>

\* shared_ptr_cleanup, lines 67-74: free(refcount); the destructor, if the
\* field is not null; free(ptr).  A call through a pointer that is not a
\* function faults, and the rest of the body is not executed.
ReleaseEvents(c, fn, p) ==
    <<FreeEv(c)>>
    \o (IF fn = NullFn THEN <<>> ELSE <<CallEv(fn, p)>>)
    \o (IF fn = WildFn THEN <<>> ELSE <<FreeEv(p)>>)

\* Handles are named in the order in which their constructor is called: the
\* next handle to construct is the first one not yet constructed.
NextDeclared(this) == \A g \in Handle : g < this => status[g] # "uninit"

\* The caller of example.c line 25 allocates the payload and passes it with a
\* destructor (or NULL) to shared_ptr_init; ok tells whether the malloc of
\* line 39 succeeds.
shared_ptr_init(this, fn, ok) ==
    /\ ~crashed
    /\ status[this] = "uninit"
    /\ NextDeclared(this)
    /\ LET p == FirstUnused(Unused)
           c == IF ok THEN FirstUnused(Unused \ {p}) ELSE NULL
       IN  /\ sp' = [sp EXCEPT ![this] = InitFields(sp[this], p, fn, c)]
           /\ heap' = [b \in Block |-> IF b = p \/ b = c THEN "live" ELSE heap[b]]
           /\ mem' = [b \in Block |-> IF b = c THEN InitCounterValue ELSE mem[b]]
           /\ status' = [status EXCEPT ![this] = IF InitReturn(c) THEN "live" ELSE "failed"]
           /\ origin' = [origin EXCEPT ![this] = IF InitReturn(c) THEN "init" ELSE "none"]
           /\ last' = Call("init", this, 0, p, fn, 0, InitReturn(c), <<>>)
    /\ UNCHANGED <<nfree, destructed, crashed, threads, grp>>

shared_ptr_copy(this, that) ==
    /\ ~crashed
    /\ status[this] = "uninit"
    /\ NextDeclared(this)
    /\ status[that] = "live"
    /\ LET c == sp[that].refcount
       IN  /\ sp' = [sp EXCEPT ![this] = CopyFields(sp[this], sp[that]),
                            ![that] = CopySource(sp[that])]
           /\ mem' = [mem EXCEPT ![c] = Increment(mem[c])]
           /\ last' = Call("copy", this, that, NULL, NullFn, mem[c], TRUE, <<>>)
    /\ status' = [status EXCEPT ![this] = "live"]
    /\ origin' = [origin EXCEPT ![this] = "copy"]
    /\ UNCHANGED <<heap, nfree, destructed, crashed, threads, grp>>

\* Runs when the scope of a handle declared with RAII_SHARED_PTR ends.  g is
\* the value read from ptr_destructor when that field was never written.
shared_ptr_cleanup(this, g) ==
    /\ ~crashed
    /\ status[this] \in {"live", "failed"}
    /\ (sp[this].ptr_destructor # UninitFn) => (g = NullFn)
    /\ UNCHANGED <<threads, grp>>
    /\ IF sp[this].refcount \notin Block
       THEN \* line 65 dereferences a pointer to no counter
            /\ crashed' = TRUE
            /\ last' = Call("cleanup", this, 0, NULL, NullFn, 0, FALSE, <<>>)
            /\ UNCHANGED <<sp, status, origin, heap, mem, nfree, destructed>>
       ELSE LET c == sp[this].refcount
                p == sp[this].ptr
                n == Decrement(mem[c])
                fn == IF sp[this].ptr_destructor = UninitFn
                      THEN g ELSE sp[this].ptr_destructor
                ev == IF ReachedZero(n) THEN ReleaseEvents(c, fn, p) ELSE <<>>
                fault == \E i \in DOMAIN ev : ev[i].e = "call" /\ ev[i].fn = WildFn
            IN  /\ mem' = [mem EXCEPT ![c] = n]
                /\ Perform(ev)
                /\ crashed' = fault
                /\ status' = [status EXCEPT ![this] = IF fault THEN @ ELSE "released"]
                /\ last' = Call("cleanup", this, 0, NULL, fn, mem[c], ~fault, ev)
                /\ UNCHANGED <<sp, origin>>

Next ==
    \/ \E h \in Handle, fn \in Destructor \cup {NullFn}, ok \in BOOLEAN :
           shared_ptr_init(h, fn, ok)
    \/ \E h \in Handle, t \in Handle : shared_ptr_copy(h, t)
    \/ \E h \in Handle, g \in Garbage : shared_ptr_cleanup(h, g)

Spec == Init /\ [][Next]_vars

(***************************************************************************)
(* The same calls run by threads, one per handle.  The read-modify-write   *)
(* of the counter (lines 55 and 65) is a load and a store, and the test of *)
(* line 66 is a step of its own; steps of different threads interleave.    *)
(***************************************************************************)

\* A call on this starts while a call on another handle of the group runs.
Overlaps(this, c) ==
    \E h \in Handle \ {this} : tpc[h] # "idle" /\ sp[h].refcount = c

\* shared_ptr_copy, lines 53-55: the fields are assigned and the counter is
\* loaded.
copy_load(this, that) ==
    /\ ~crashed
    /\ status[this] = "uninit"
    /\ NextDeclared(this)
    /\ status[that] = "live" /\ tpc[that] = "idle"
    /\ LET c == sp[that].refcount
       IN  /\ sp' = [sp EXCEPT ![this] = CopyFields(sp[this], sp[that]),
                            ![that] = CopySource(sp[that])]
           /\ reg' = [reg EXCEPT ![this] = mem[c]]
           /\ raced' = (raced \/ Overlaps(this, c))
    /\ status' = [status EXCEPT ![this] = "copying"]
    /\ tpc' = [tpc EXCEPT ![this] = "inc"]
    /\ UNCHANGED <<origin, heap, mem, nfree, destructed, last, crashed, grp>>

\* shared_ptr_copy, line 55: the incremented value is stored.
copy_store(this) ==
    /\ ~crashed
    /\ tpc[this] = "inc"
    /\ mem' = [mem EXCEPT ![sp[this].refcount] = Increment(reg[this])]
    /\ status' = [status EXCEPT ![this] = "live"]
    /\ origin' = [origin EXCEPT ![this] = "copy"]
    /\ tpc' = [tpc EXCEPT ![this] = "idle"]
    /\ reg' = [reg EXCEPT ![this] = 0]
    /\ UNCHANGED <<sp, heap, nfree, destructed, last, crashed, raced, grp>>

\* shared_ptr_cleanup, line 65: the counter is loaded.
cleanup_load(this) ==
    /\ ~crashed
    /\ status[this] = "live" /\ tpc[this] = "idle"
    /\ reg' = [reg EXCEPT ![this] = mem[sp[this].refcount]]
    /\ tpc' = [tpc EXCEPT ![this] = "dec"]
    /\ raced' = (raced \/ Overlaps(this, sp[this].refcount))
    /\ UNCHANGED <<sp, status, origin, heap, mem, nfree, destructed, last,
                   crashed, grp>>

\* shared_ptr_cleanup, line 65: the decremented value is stored.
cleanup_store(this) ==
    /\ ~crashed
    /\ tpc[this] = "dec"
    /\ mem' = [mem EXCEPT ![sp[this].refcount] = Decrement(reg[this])]
    /\ tpc' = [tpc EXCEPT ![this] = "test"]
    /\ UNCHANGED <<sp, status, origin, heap, nfree, destructed, last, crashed,
                   reg, raced, grp>>

\* shared_ptr_cleanup, lines 66-75: the test and the deallocation.  The
\* value tested is the counter as it is in memory now (reread), or the
\* value this thread stored, which the compiler may have kept in a register.
cleanup_test(this, g, reread) ==
    /\ ~crashed
    /\ tpc[this] = "test"
    /\ (sp[this].ptr_destructor # UninitFn) => (g = NullFn)
    /\ LET c == sp[this].refcount
           p == sp[this].ptr
           fn == IF sp[this].ptr_destructor = UninitFn
                 THEN g ELSE sp[this].ptr_destructor
           n == IF reread THEN mem[c] ELSE Decrement(reg[this])
           ev == IF ReachedZero(n) THEN ReleaseEvents(c, fn, p) ELSE <<>>
           fault == \E i \in DOMAIN ev : ev[i].e = "call" /\ ev[i].fn = WildFn
       IN  /\ Perform(ev)
           /\ crashed' = fault
           /\ status' = [status EXCEPT ![this] = IF fault THEN @ ELSE "released"]
    /\ tpc' = [tpc EXCEPT ![this] = "idle"]
    /\ reg' = [reg EXCEPT ![this] = 0]
    /\ UNCHANGED <<sp, origin, mem, last, raced, grp>>

\* One group, constructed by the first handle before the threads start.
NextThreads ==
    \/ \E fn \in Destructor \cup {NullFn} : shared_ptr_init(1, fn, TRUE)
    \/ \E h \in Handle, t \in Handle : copy_load(h, t)
    \/ \E h \in Handle : copy_store(h)
    \/ \E h \in Handle : cleanup_load(h)
    \/ \E h \in Handle : cleanup_store(h)
    \/ \E h \in Handle, g \in Garbage, reread \in BOOLEAN :
           cleanup_test(h, g, reread)

SpecThreads == Init /\ [][NextThreads]_vars

(***************************************************************************)
(* One group with more handles than the counter can count.  Only the       *)
(* counter word and the number of live handles are kept: the handles are   *)
(* live shared_ptr_t variables that all reference this counter.            *)
(***************************************************************************)

\* One handle more than the counter has values.
MaxLive == CounterMod + 1

\* shared_ptr_init, line 42.
group_init ==
    /\ grp = NoGroup
    /\ grp' = [counter |-> InitCounterValue, live |-> 1, freed |-> FALSE,
               op |-> "init"]
    /\ UNCHANGED <<sp, status, origin, heap, mem, nfree, destructed, last,
                   crashed, threads>>

\* shared_ptr_copy, line 55, from a live handle of the group.
group_copy ==
    /\ grp.live >= 1 /\ ~grp.freed
    /\ grp.live < MaxLive
    /\ grp' = [grp EXCEPT !.counter = Increment(grp.counter),
                          !.live = @ + 1,
                          !.op = "copy"]
    /\ UNCHANGED <<sp, status, origin, heap, mem, nfree, destructed, last,
                   crashed, threads>>

\* shared_ptr_cleanup, lines 65-66, of a live handle of the group.
group_cleanup ==
    /\ grp.live >= 1 /\ ~grp.freed
    /\ grp' = [grp EXCEPT !.counter = Decrement(grp.counter),
                          !.live = @ - 1,
                          !.freed = ReachedZero(Decrement(grp.counter)),
                          !.op = "cleanup"]
    /\ UNCHANGED <<sp, status, origin, heap, mem, nfree, destructed, last,
                   crashed, threads>>

NextWrap == group_init \/ group_copy \/ group_cleanup

SpecWrap == Init /\ [][NextWrap]_vars

(***************************************************************************)
(* Vocabulary of the properties.  A cell group is named by its counter     *)
(* block; its members are the handles constructed on it.                   *)
(***************************************************************************)
Constructed == {h \in Handle : status[h] \in {"live", "released"}}
Members(c) == {h \in Constructed : sp[h].refcount = c}
LiveHandles(c) == {h \in Members(c) : status[h] = "live"}
Groups == {sp[h].refcount : h \in Constructed}
Payload(c) == sp[CHOOSE h \in Members(c) : TRUE].ptr
AllReleased(c) == \A h \in Members(c) : status[h] = "released"

\* The destructor handed to the shared_ptr_init that made the group.
Supplied(c) ==
    sp[CHOOSE h \in Members(c) : origin[h] = "init"].ptr_destructor

Occurs(ev, x) == \E i \in DOMAIN ev : ev[i] = x
Before(ev, x, y) == \E i, j \in DOMAIN ev : i < j /\ ev[i] = x /\ ev[j] = y

\* The last call was a shared_ptr_cleanup on a constructed handle.
Released == last.op = "cleanup" /\ sp[last.this].refcount \in Block

\* The last call was the shared_ptr_cleanup that took the counter to 0.
ZeroTransition == Released /\ mem[sp[last.this].refcount] = 0

C3_FinalizerOnceAtLastRelease ==
    \A c \in Groups :
        Supplied(c) # NullFn =>
            /\ AllReleased(c) => destructed[Payload(c)] = <<Supplied(c)>>
            /\ (LiveHandles(c) # {} /\ ~crashed) => destructed[Payload(c)] = <<>>

\* C4 as stated: in the call that takes the counter to 0 the destructor, if
\* any, precedes the free of the payload, which precedes the free of the
\* counter.
C4_CounterFreedAfterPayload ==
    (ZeroTransition /\ last.ret) =>
        LET c == sp[last.this].refcount
            p == sp[last.this].ptr
        IN  /\ Before(last.ev, FreeEv(p), FreeEv(c))
            /\ last.fn # NullFn => Before(last.ev, CallEv(last.fn, p), FreeEv(p))

\* C4 as amended: in the call that takes the counter to 0 the counter is
\* freed first, then the function in the handle's ptr_destructor field, if
\* not null, is invoked with the payload, and the payload is freed last.
C4_CounterFreedFirst ==
    ZeroTransition =>
        LET c == sp[last.this].refcount
            p == sp[last.this].ptr
            ev == last.ev
        IN  /\ Len(ev) >= 1 /\ ev[1] = FreeEv(c)
            /\ \A i \in DOMAIN ev : ev[i].e = "call" =>
                   (i = 2 /\ ev[i] = CallEv(last.fn, p) /\ last.fn # NullFn)
            /\ last.fn # NullFn => Len(ev) >= 2 /\ ev[2].e = "call"
            /\ \A i \in DOMAIN ev : ev[i] = FreeEv(p) => i = Len(ev) /\ i > 1
            /\ last.ret => ev[Len(ev)] = FreeEv(p)

\* The final release of a group with a destructor: three events.
C4_Witness ==
    /\ ZeroTransition
    /\ last.ret
    /\ last.fn \in Destructor
    /\ Len(last.ev) = 3

\* C5: after a shared_ptr_init that returned true the handle's counter is a
\* live block never freed and referenced by nothing else, its value is 1,
\* and ptr and ptr_destructor are the arguments.
C5_InitResult ==
    (last.op = "init" /\ last.ret) =>
        LET h == last.this
            c == sp[h].refcount
        IN  /\ c \in Block
            /\ heap[c] = "live" /\ nfree[c] = 0
            /\ \A g \in Handle : g # h => (sp[g].refcount # c /\ sp[g].ptr # c)
            /\ sp[h].ptr # c
            /\ mem[c] = 1
            /\ sp[h].ptr = last.ptr
            /\ sp[h].ptr_destructor = last.fn

\* A second group constructed, with a destructor, while the first is live.
C5_Witness ==
    /\ last.op = "init" /\ last.ret /\ last.fn \in Destructor
    /\ Cardinality(Groups) = 2

C7_InitFailureKeepsPayload ==
    (last.op = "init" /\ sp[last.this].refcount = NULL) =>
        /\ last.ret = FALSE
        /\ heap[last.ptr] = "live"
        /\ nfree[last.ptr] = 0
        /\ mem[last.ptr] = Uninit
        /\ destructed[last.ptr] = <<>>
        /\ last.ev = <<>>

\* A failed construction with a destructor, while another group is live.
C7_Witness ==
    /\ last.op = "init" /\ sp[last.this].refcount = NULL /\ ~last.ret
    /\ last.fn \in Destructor
    /\ Groups # {}

\* C8 as stated: a shared_ptr_init that returns false has written no field
\* of the handle.
C8_InitFailureWritesNothing ==
    [][(last'.op = "init" /\ ~last'.ret) => sp' = sp]_vars

\* C8 as amended: a shared_ptr_init that returns false has stored its two
\* arguments in ptr and ptr_destructor and null in refcount, and has written
\* no other handle.
C8_InitFailureWritesFields ==
    [][(last'.op = "init" /\ ~last'.ret) =>
          sp' = [sp EXCEPT ![last'.this] =
                     shared_ptr_t(NULL, last'.ptr, last'.fn)]]_vars

\* A handle after a failed construction: its fields are no longer
\* indeterminate.
C8_Witness ==
    /\ last.op = "init" /\ ~last.ret
    /\ status[last.this] = "failed"
    /\ sp[last.this] = shared_ptr_t(NULL, last.ptr, last.fn)
    /\ last.fn \in Destructor

\* C9: when every handle of a group is released the counter block has been
\* freed exactly once; a shared_ptr_cleanup that returns frees the counter
\* if and only if it frees the payload; and a group made with a null
\* destructor never has a function invoked with its payload.
C9_CounterFreedWithPayload ==
    /\ \A c \in Groups :
        /\ nfree[c] <= 1
        /\ AllReleased(c) => nfree[c] = 1
        /\ Supplied(c) = NullFn => destructed[Payload(c)] = <<>>
    /\ (Released /\ last.ret) =>
          (Occurs(last.ev, FreeEv(sp[last.this].refcount))
              <=> Occurs(last.ev, FreeEv(sp[last.this].ptr)))

\* C10: a shared_ptr_cleanup on a group whose counter is n > 1 stores n - 1
\* in the counter and changes nothing else: no field of any handle, no
\* allocation, no destructor invocation.
C10_ReleaseAboveOne ==
    [][(/\ last'.op = "cleanup"
        /\ sp[last'.this].refcount \in Block
        /\ mem[sp[last'.this].refcount] > 1)
       => (/\ mem' = [mem EXCEPT ![sp[last'.this].refcount] = @ - 1]
           /\ sp' = sp
           /\ heap' = heap
           /\ nfree' = nfree
           /\ destructed' = destructed
           /\ last'.ev = <<>>
           /\ crashed' = crashed)]_vars

\* A release that left two handles of a group of three.
C10_Witness ==
    /\ Released /\ last.cnt = 3 /\ last.ev = <<>>
    /\ mem[sp[last.this].refcount] = 2
    /\ heap[sp[last.this].refcount] = "live"
    /\ heap[sp[last.this].ptr] = "live"

\* The flag of a destructor that records its invocation: the destructor
\* supplied to the group has run on the group's payload.
FlagSet(c) ==
    \E i \in DOMAIN destructed[Payload(c)] :
        destructed[Payload(c)][i] = Supplied(c)

\* The scenario of C11 on handles a and h2: a was made by shared_ptr_init
\* with a destructor, h2 by the only shared_ptr_copy of the group.
Scenario(a, h2) ==
    /\ a \in Constructed /\ h2 \in Constructed
    /\ origin[a] = "init" /\ origin[h2] = "copy"
    /\ sp[a].refcount = sp[h2].refcount
    /\ Members(sp[a].refcount) = {a, h2}
    /\ sp[a].ptr_destructor \in Destructor

\* C11: construct with a flag-setting destructor, share once into h2,
\* release h2, release the original.  After the release of h2 the flag is
\* unset and the counter is 1; after the release of the original (the last
\* call, h2 already released) the flag is set; while the original is live
\* the flag is unset.
C11_FlagIffBothReleased ==
    \A a \in Handle, h2 \in Handle :
        Scenario(a, h2) =>
            LET c == sp[a].refcount
            IN  /\ status[a] = "live" => ~FlagSet(c)
                /\ (status[a] = "live" /\ status[h2] = "released") =>
                       (mem[c] = 1 /\ heap[c] = "live" /\ heap[Payload(c)] = "live")
                /\ (AllReleased(c) /\ last.op = "cleanup" /\ last.this = a) =>
                       (FlagSet(c) /\ destructed[Payload(c)] = <<Supplied(c)>>)

\* The end of the scenario: both released, the original last, the flag set.
C11_Witness ==
    \E a \in Handle, h2 \in Handle :
        /\ Scenario(a, h2)
        /\ AllReleased(sp[a].refcount)
        /\ last.op = "cleanup" /\ last.this = a /\ last.cnt = 1
        /\ FlagSet(sp[a].refcount)

\* The scope of a handle declared with RAII_SHARED_PTR ends: the compiler
\* runs shared_ptr_cleanup on it.
ScopeExit == \E h \in Handle, g \in Garbage : shared_ptr_cleanup(h, g)

\* Every owning scope eventually ends.
SpecScopes == Spec /\ WF_vars(ScopeExit)

\* The state FREED of a group: counter and payload are deallocated.
GroupFreed(c) == heap[c] = "freed" /\ heap[Payload(c)] = "freed"

\* What a group consists of: its two blocks and its handles.
GroupState(c) ==
    <<mem[c], heap[c], heap[Payload(c)], nfree[c], nfree[Payload(c)],
      destructed[Payload(c)], Members(c),
      [h \in Members(c) |-> <<sp[h], status[h]>>]>>

C13_ExactlyOnceUnlessRaced ==
    \A c \in Groups :
        ~raced =>
            /\ nfree[Payload(c)] <= 1
            /\ AllReleased(c) => nfree[Payload(c)] = 1
            /\ nfree[Payload(c)] = 1 => LiveHandles(c) = {}

\* Two shared_ptr_cleanup calls of one group overlapped and the payload was
\* freed twice.
C13_Witness ==
    \E c \in Groups : raced /\ nfree[Payload(c)] = 2 /\ AllReleased(c)

\* A shared_ptr_copy and a shared_ptr_cleanup overlapped, every handle was
\* released and the payload was never freed.
C13_Leaked ==
    \E c \in Groups :
        /\ raced /\ AllReleased(c) /\ Cardinality(Members(c)) = 3
        /\ nfree[Payload(c)] = 0
        /\ \A h \in Handle : tpc[h] = "idle"

\* C14: shared_ptr_copy on a live handle completes without a fault, makes
\* the new handle live, allocates and frees nothing and invokes nothing; it
\* writes only the counter word and the fields of the new handle.
C14_CopyFrame ==
    [][last'.op = "copy" =>
          LET new == last'.this
              c == sp[last'.that].refcount
          IN  /\ status[last'.that] = "live"
              /\ status'[new] = "live" /\ ~crashed' /\ last'.ret
              /\ heap' = heap
              /\ nfree' = nfree
              /\ destructed' = destructed
              /\ last'.ev = <<>>
              /\ \A h \in Handle \ {new} : sp'[h] = sp[h] /\ status'[h] = status[h]
              /\ \A b \in Block \ {c} : mem'[b] = mem[b]]_vars

\* A copy made while another group exists; its source is still live.
C14_Witness ==
    /\ last.op = "copy"
    /\ status[last.that] = "live" /\ status[last.this] = "live"
    /\ sp[last.that].refcount = sp[last.this].refcount
    /\ Cardinality(Groups) = 2

\* C15: when the call after a shared_ptr_copy (counter n before it) is the
\* shared_ptr_cleanup of the handle just made, the counter is n again, both
\* blocks are still allocated, no destructor has run, and the source handle
\* is live, unchanged, and points to the allocated payload.
C15_CopyThenCleanup ==
    [][(last.op = "copy" /\ last'.op = "cleanup" /\ last'.this = last.this) =>
          LET c == sp[last.this].refcount
              p == sp[last.this].ptr
              orig == last.that
          IN  /\ last.cnt >= 1
              /\ mem'[c] = last.cnt
              /\ heap'[c] = "live" /\ heap'[p] = "live"
              /\ nfree'[p] = 0 /\ nfree'[c] = 0
              /\ destructed'[p] = <<>> /\ last'.ev = <<>>
              /\ status'[orig] = "live" /\ sp'[orig] = sp[orig]
              /\ sp'[orig].ptr = p
              /\ ~crashed']_vars

\* print_val1 has returned: the copy is released, the original is the only
\* live handle and the counter is 1.
C15_Witness ==
    \E a \in Handle, b \in Handle :
        /\ Scenario(a, b)
        /\ status[a] = "live" /\ status[b] = "released"
        /\ last.op = "cleanup" /\ last.this = b /\ last.cnt = 2
        /\ mem[sp[a].refcount] = 1
        /\ \A h \in Handle \ {a, b} : status[h] = "uninit"

\* C16: every live handle of a group holds in ptr_destructor the destructor
\* that was supplied to the shared_ptr_init of the group.
C16_HandlesHoldTheFinalizer ==
    \A c \in Groups :
        \A h \in LiveHandles(c) : sp[h].ptr_destructor = Supplied(c)

\* C17: shared_ptr_cleanup runs only on a handle whose refcount points to
\* an allocated counter, on every exit path of the scope of the handle.
C17_CleanupOnLiveCounterOnly ==
    [][last'.op = "cleanup" =>
          (/\ sp[last'.this].refcount \in Block
           /\ heap[sp[last'.this].refcount] = "live")]_vars

\* C18 as stated: a shared_ptr_copy at a counter n with 1 <= n <= 2^w - 1
\* yields n + 1, a value that is not 0 and not below the number of live
\* handles.
C18_CopyNeverWraps ==
    [][(grp'.op = "copy" /\ grp.counter >= 1 /\ grp.counter <= CounterMod - 1) =>
          (/\ grp'.counter = grp.counter + 1
           /\ grp'.counter # 0
           /\ grp'.counter >= grp'.live)]_vars

\* C18 as amended: a shared_ptr_copy at a counter n with 1 <= n <= 2^w - 2
\* yields n + 1, and while at most 2^w - 1 handles are live the counter is
\* their number; the shared_ptr_copy at n = 2^w - 1 wraps the counter to 0
\* with 2^w handles live.
C18_CopyWrapsAtMax ==
    [][grp'.op = "copy" =>
          (/\ (grp.counter >= 1 /\ grp.counter <= CounterMod - 2) =>
                  grp'.counter = grp.counter + 1
           /\ grp'.live <= CounterMod - 1 =>
                  (grp'.counter = grp'.live /\ grp'.counter # 0)
           /\ grp.counter = CounterMod - 1 => grp'.counter = 0)]_vars

\* The copy that made the 2^w-th live handle: the counter is 0.
C18_Witness ==
    /\ grp.op = "copy" /\ grp.live = CounterMod /\ grp.counter = 0
    /\ ~grp.freed

====
